---- MODULE Spec2Model ----
(***************************************************************************)
(* Model of the traction innkeeper TenantManager                           *)
(* (plugins/traction_innkeeper/.../v1_0/tenant_manager.py) and of the      *)
(* showcase line-of-business routes                                        *)
(* (services/showcase/api/endpoints/routes/line_of_business.py).           *)
(*                                                                         *)
(* Optional values (Python None) are tagged pairs or sets of at most one   *)
(* element, so that every comparison is between values of one shape.       *)
(***************************************************************************)
EXTENDS Integers, Sequences, FiniteSets, TLC

VARIABLES
    wallets,    \* WalletRecords held by the agent runtime's storage
    tenants,    \* TenantRecords held by the plugin's storage
    last,       \* outcome of the last completed TenantManager call
    hist,       \* history of create_innkeeper calls (observation only)
    pc,         \* per coroutine: position inside create_innkeeper
    loc,        \* per coroutine: local variables of create_innkeeper
    resv,       \* the ReservationRecord under test (set of at most one)
    now,        \* the clock
    chk,        \* outcome of the last check_reservation_password call
    db,         \* showcase database: lobs, students, applicants
    ext,        \* calls received by the external traction service
    resp        \* outcome of the last line-of-business route call

vars == <<wallets, tenants, last, hist, pc, loc, resv, now, chk, db, ext, resp>>

tmVars == <<wallets, tenants, last, hist>>
coVars == <<pc, loc>>
rsVars == <<resv, now, chk>>
lbVars == <<db, ext, resp>>

----------------------------------------------------------------------------
(* Bounds of the model *)

MaxWallets == 2     \* wallets the one-call-at-a-time specifications create
MaxTenants == 2     \* tenant records they save
MaxCalls == 1       \* create_innkeeper calls each coroutine makes
PwdLen == 2         \* characters of a generated password
MaxTime == 3        \* last minute of the clock
NumSandboxes == 2   \* sandboxes of the showcase database

----------------------------------------------------------------------------
(* Values *)

None == <<"none", 0>>
NoErr == "none"

\* config.innkeeper_wallet: tenant_id, wallet_name, wallet_key
InnkeeperId == <<"id", 0>>
InnkeeperName == <<"name", 0>>
InnkeeperKey == <<"key", 0>>

\* str(uuid.uuid4()): a value drawn for no other purpose (kind) and held by
\* no record yet; n counts the records
uuid4(kind, n) == <<kind, n>>

\* the exceptions `except StorageError` catches (StorageNotFoundError and
\* StorageDuplicateError are its subclasses) and those `except BaseModelError`
\* catches; all of them, and MultitenantManagerError, derive from BaseError
StorageErrors == {"StorageError", "StorageNotFoundError", "StorageDuplicateError"}
BaseModelErrors == {"BaseModelError"}

The(s) == CHOOSE x \in s : TRUE

----------------------------------------------------------------------------
(* Collaborators: storage layer and multitenancy service *)

\* WalletRecord.retrieve_by_id(session, wallet_id): fault is NoErr, or the
\* StorageError (backend failure) or BaseModelError (malformed record) raised
WalletRecord_retrieve_by_id(ws, wallet_id, fault) ==
    IF fault # NoErr THEN [err |-> fault, rec |-> {}]
    ELSE IF \E w \in ws : w.wallet_id = wallet_id
         THEN [err |-> NoErr, rec |-> {w \in ws : w.wallet_id = wallet_id}]
         ELSE [err |-> "StorageNotFoundError", rec |-> {}]

\* TenantRecord.retrieve_by_id(session, tenant_id)
TenantRecord_retrieve_by_id(ts, tenant_id, fault) ==
    IF fault # NoErr THEN [err |-> fault, rec |-> {}]
    ELSE IF \E t \in ts : t.tenant_id = tenant_id
         THEN [err |-> NoErr, rec |-> {t \in ts : t.tenant_id = tenant_id}]
         ELSE [err |-> "StorageNotFoundError", rec |-> {}]

\* tenant.save(session, reason="New tenant"): a record without an id gets a
\* fresh one; a new record is added, and adding an id already stored fails
TenantRecord_save(ts, tenant, new_with_id, fault) ==
    LET rec == IF tenant.tenant_id = None
               THEN [tenant EXCEPT !.tenant_id = uuid4("uuid-tenant", Cardinality(ts) + 1)]
               ELSE tenant
        new_record == tenant.tenant_id = None \/ new_with_id
    IN  IF fault THEN [err |-> "StorageError", tenants |-> ts, rec |-> {}]
        ELSE IF new_record
        THEN IF \E t \in ts : t.tenant_id = rec.tenant_id
             THEN [err |-> "StorageDuplicateError", tenants |-> ts, rec |-> {}]
             ELSE [err |-> NoErr, tenants |-> ts \cup {rec}, rec |-> {rec}]
        ELSE IF \E t \in ts : t.tenant_id = rec.tenant_id
             THEN [err |-> NoErr,
                   tenants |-> {t \in ts : t.tenant_id # rec.tenant_id} \cup {rec},
                   rec |-> {rec}]
             ELSE [err |-> "StorageNotFoundError", tenants |-> ts, rec |-> {}]

\* multitenant_mgr.create_wallet(settings, key_management_mode)
mt_create_wallet(ws, settings, fault) ==
    IF fault THEN [err |-> "MultitenantManagerError", wallets |-> ws, rec |-> {}]
    ELSE LET w == [wallet_id |-> <<"wallet", Cardinality(ws) + 1>>,
                   wallet_name |-> settings["wallet.name"],
                   wallet_key |-> settings["wallet.key"],
                   innkeeper |-> IF "wallet.innkeeper" \in DOMAIN settings
                                 THEN settings["wallet.innkeeper"]
                                 ELSE FALSE]
         IN  [err |-> NoErr, wallets |-> ws \cup {w}, rec |-> {w}]

\* multitenant_mgr.create_auth_token(wallet_record, wallet_key): fault is
\* NoErr or the BaseError the service raises
mt_create_auth_token(wallet_record, fault) ==
    IF fault # NoErr THEN [err |-> fault, token |-> {}]
    ELSE [err |-> NoErr, token |-> {[wallet_id |-> wallet_record.wallet_id]}]

Call(name, wallet_id) == [call |-> name, wallet_id |-> wallet_id]

----------------------------------------------------------------------------
(* TenantManager *)

\* dict.update: the entries of e replace those of d
update(d, e) ==
    [k \in DOMAIN d \cup DOMAIN e |-> IF k \in DOMAIN e THEN e[k] ELSE d[k]]

NoSettings == [k \in {} |-> TRUE]
InnkeeperSettings == "wallet.innkeeper" :> TRUE

\* fault injection: what each collaborator does during one call
TokenFaults == {NoErr, "MultitenantManagerError", "StorageError"}
StoreFaults == {"none", "retrieve", "save"}
LookupErrors == {"StorageError", "BaseModelError"}
\* The first failure after the lookup aborts the call, so at most one of
\* mt, tok, st is injected per call; a lookup failure is swallowed by
\* create_innkeeper and may be followed by one of them.
LaterFaults ==
    {f \in [lookup : {"none"}, lerr : {"StorageError"}, mt : BOOLEAN,
            tok : TokenFaults, st : StoreFaults] :
        Cardinality({k \in {"mt", "tok", "st"} :
                        \/ k = "mt" /\ f.mt
                        \/ k = "tok" /\ f.tok # NoErr
                        \/ k = "st" /\ f.st # "none"}) <= 1}
Faults ==
    LaterFaults \cup
    {[g EXCEPT !.lookup = at, !.lerr = e] :
        g \in LaterFaults, at \in {"tenant", "wallet"}, e \in LookupErrors}
NoFault == [lookup |-> "none", lerr |-> "StorageError", mt |-> FALSE,
            tok |-> NoErr, st |-> "none"]
LookupFault(f, at) == IF f.lookup = at THEN f.lerr ELSE NoErr

\* get_token(wallet_record): except BaseError: log, raise err
get_token(wallet_record, tok) ==
    LET r == mt_create_auth_token(wallet_record, tok)
    IN  [err |-> r.err, token |-> r.token,
         calls |-> <<Call("create_auth_token", wallet_record.wallet_id)>>]

\* get_token_by_wallet_id(wallet_id): a StorageError or BaseModelError raised
\* inside the try block is logged and swallowed, and `return token` then
\* reads a local that was never bound
get_token_by_wallet_id(ws, wallet_id, f) ==
    LET l == WalletRecord_retrieve_by_id(ws, wallet_id, LookupFault(f, "wallet"))
        lc == <<Call("WalletRecord.retrieve_by_id", wallet_id)>>
    IN  IF l.err # NoErr
        THEN IF l.err \in StorageErrors \cup BaseModelErrors
             THEN [err |-> "UnboundLocalError", token |-> {}, calls |-> lc]
             ELSE [err |-> l.err, token |-> {}, calls |-> lc]
        ELSE LET t == get_token(The(l.rec), f.tok)
             IN  IF t.err = NoErr
                 THEN [err |-> NoErr, token |-> t.token, calls |-> lc \o t.calls]
                 ELSE IF t.err \in StorageErrors \cup BaseModelErrors
                 THEN [err |-> "UnboundLocalError", token |-> {},
                       calls |-> lc \o t.calls]
                 ELSE [err |-> t.err, token |-> {}, calls |-> lc \o t.calls]

\* create_tenant without the wallet lookup: the TenantRecord is built from the
\* wallet_id argument as given
create_tenant_unchecked(ws, ts, wallet_id, tenant_id, st) ==
    LET tenant == [tenant_id |-> tenant_id, tenant_name |-> None,
                   wallet_id |-> wallet_id]
        s == TenantRecord_save(ts, tenant, tenant_id # None, st = "save")
    IN  [err |-> s.err, tenants |-> s.tenants, tenant |-> s.rec,
         calls |-> <<Call("TenantRecord.save", wallet_id)>>]

\* create_tenant(wallet_id, tenant_id): except Exception: log, raise err
create_tenant(ws, ts, wallet_id, tenant_id, st) ==
    LET l == WalletRecord_retrieve_by_id(ws, wallet_id,
                    IF st = "retrieve" THEN "StorageError" ELSE NoErr)
        lc == <<Call("WalletRecord.retrieve_by_id", wallet_id)>>
    IN  IF l.err # NoErr
        THEN [err |-> l.err, tenants |-> ts, tenant |-> {}, calls |-> lc]
        ELSE LET wallet_record == The(l.rec)
                 tenant == [tenant_id |-> tenant_id,
                            tenant_name |-> wallet_record.wallet_name,
                            wallet_id |-> wallet_record.wallet_id]
                 s == TenantRecord_save(ts, tenant, tenant_id # None, st = "save")
             IN  [err |-> s.err, tenants |-> s.tenants, tenant |-> s.rec,
                  calls |-> lc \o <<Call("TenantRecord.save", wallet_id)>>]

\* create_wallet, lines 49-70: the settings handed to the multitenancy service
wallet_settings(ws, wallet_name, wallet_key, extra_settings) ==
    LET name == IF wallet_name = None
                THEN uuid4("uuid-name", Cardinality(ws) + 1) ELSE wallet_name
        key == IF wallet_key = None
               THEN uuid4("uuid-key", Cardinality(ws) + 1) ELSE wallet_key
    IN  update(update("wallet.name" :> name @@ "wallet.key" :> key, extra_settings),
               "default_label" :> name)

\* create_wallet with the TenantRecord created before the token is requested
create_wallet_tenant_first(ws, ts, wallet_name, wallet_key, extra_settings, tenant_id, f) ==
    LET settings == wallet_settings(ws, wallet_name, wallet_key, extra_settings)
        c == mt_create_wallet(ws, settings, f.mt)
        cc == <<Call("create_wallet", IF c.rec = {} THEN None ELSE The(c.rec).wallet_id)>>
        failed(err, w, t, calls) ==
            [err |-> err, wallets |-> w, tenants |-> t,
             tenant |-> {}, wallet |-> {}, token |-> {}, calls |-> calls]
    IN  IF c.err # NoErr THEN failed(c.err, c.wallets, ts, cc)
        ELSE LET wallet_record == The(c.rec)
                 n == create_tenant(c.wallets, ts, wallet_record.wallet_id,
                                    tenant_id, f.st)
                 t == get_token(wallet_record, f.tok)
             IN  IF n.err # NoErr THEN failed(n.err, c.wallets, n.tenants, cc \o n.calls)
                 ELSE IF t.err # NoErr
                 THEN failed(t.err, c.wallets, n.tenants, cc \o n.calls \o t.calls)
                 ELSE [err |-> NoErr, wallets |-> c.wallets,
                       tenants |-> n.tenants, tenant |-> n.tenant,
                       wallet |-> c.rec, token |-> t.token,
                       calls |-> cc \o n.calls \o t.calls]

\* create_wallet(wallet_name, wallet_key, extra_settings, tenant_id)
create_wallet(ws, ts, wallet_name, wallet_key, extra_settings, tenant_id, f) ==
    LET settings == wallet_settings(ws, wallet_name, wallet_key, extra_settings)
        c == mt_create_wallet(ws, settings, f.mt)
        cc == <<Call("create_wallet", IF c.rec = {} THEN None ELSE The(c.rec).wallet_id)>>
        failed(err, w, calls) ==
            [err |-> err, wallets |-> w, tenants |-> ts,
             tenant |-> {}, wallet |-> {}, token |-> {}, calls |-> calls]
    IN  IF c.err # NoErr THEN failed(c.err, c.wallets, cc)
        ELSE LET wallet_record == The(c.rec)
                 t == get_token(wallet_record, f.tok)
             IN  IF t.err # NoErr THEN failed(t.err, c.wallets, cc \o t.calls)
                 ELSE LET n == create_tenant(c.wallets, ts, wallet_record.wallet_id,
                                             tenant_id, f.st)
                      IN  IF n.err # NoErr
                          THEN [failed(n.err, c.wallets, cc \o t.calls \o n.calls)
                                  EXCEPT !.tenants = n.tenants]
                          ELSE [err |-> NoErr, wallets |-> c.wallets,
                                tenants |-> n.tenants, tenant |-> n.tenant,
                                wallet |-> c.rec, token |-> t.token,
                                calls |-> cc \o t.calls \o n.calls]

\* create_innkeeper, lines 133-143: does innkeeper already exist?  Either
\* retrieval raising StorageError/BaseModelError leaves what was bound so far
innkeeper_lookup(ws, ts, f) ==
    LET t == TenantRecord_retrieve_by_id(ts, InnkeeperId, LookupFault(f, "tenant"))
    IN  IF t.err # NoErr THEN [tenant_record |-> {}, wallet_record |-> {}]
        ELSE LET w == WalletRecord_retrieve_by_id(ws, The(t.rec).wallet_id,
                                                  LookupFault(f, "wallet"))
             IN  [tenant_record |-> t.rec, wallet_record |-> w.rec]

\* create_innkeeper without the branch on the lookup's result
innkeeper_provision_always(ws, ts, found, f) ==
    create_wallet(ws, ts, InnkeeperName, InnkeeperKey, InnkeeperSettings,
                  InnkeeperId, f)

\* create_innkeeper, lines 145-153, given what the lookup bound
innkeeper_provision(ws, ts, found, f) ==
    IF found.tenant_record # {} /\ found.wallet_record # {}
    THEN LET t == get_token(The(found.wallet_record), f.tok)
         IN  [err |-> t.err, wallets |-> ws, tenants |-> ts,
              tenant |-> IF t.err = NoErr THEN found.tenant_record ELSE {},
              wallet |-> IF t.err = NoErr THEN found.wallet_record ELSE {},
              token |-> t.token, calls |-> t.calls]
    ELSE create_wallet(ws, ts, InnkeeperName, InnkeeperKey, InnkeeperSettings,
                       InnkeeperId, f)

\* create_innkeeper(): the records it prints are its result here
create_innkeeper(ws, ts, f) ==
    innkeeper_provision(ws, ts, innkeeper_lookup(ws, ts, f), f)

----------------------------------------------------------------------------
(* Initial states of the four parts of the state *)

Procs == {1, 2}

NoCall == [op |-> "none", arg |-> None, f |-> NoFault, err |-> NoErr,
           tenant |-> {}, wallet |-> {}, token |-> {}, calls |-> <<>>]

InitTM ==
    /\ wallets = {}
    /\ tenants = {}
    /\ last = NoCall
    /\ hist = [ok |-> {}, clean |-> TRUE]

NoLocals == [tenant_record |-> {}, wallet_record |-> {}, token |-> {},
             err |-> NoErr, creating |-> FALSE, faulted |-> FALSE, n |-> 0]

InitCo ==
    /\ pc = [p \in Procs |-> "idle"]
    /\ loc = [p \in Procs |-> NoLocals]

InitRs ==
    /\ resv = {}
    /\ now \in 0..MaxTime
    /\ chk = {}

NoRequest == [route |-> "none", sandbox_id |-> 0, lob_id |-> None, who |-> None]

InitLb ==
    /\ db = [lobs |-> {}, students |-> {}, applicants |-> {}, oobs |-> {}]
    /\ ext = <<>>
    /\ resp = [req |-> NoRequest, status |-> "none", body |-> {}]

----------------------------------------------------------------------------
(* TenantManager calls, one at a time *)

Done(op, arg, f, r) ==
    [op |-> op, arg |-> arg, f |-> f, err |-> r.err, tenant |-> r.tenant,
     wallet |-> r.wallet, token |-> r.token, calls |-> r.calls]

InBounds(ws, ts) == Cardinality(ws) <= MaxWallets /\ Cardinality(ts) <= MaxTenants

WalletIds == {<<"wallet", n>> : n \in 1..(MaxWallets + 1)}

CreateWallet ==
    \E wallet_name \in {None}, wallet_key \in {None},
       tenant_id \in {None, InnkeeperId}, f \in LaterFaults :
        LET r == create_wallet(wallets, tenants, wallet_name, wallet_key,
                               NoSettings, tenant_id, f)
        IN  /\ InBounds(r.wallets, r.tenants)
            /\ wallets' = r.wallets
            /\ tenants' = r.tenants
            /\ last' = Done("create_wallet", tenant_id, f, r)
            /\ UNCHANGED hist

CreateTenant ==
    \E wallet_id \in WalletIds, tenant_id \in {None, InnkeeperId},
       f \in {g \in LaterFaults : ~g.mt /\ g.tok = NoErr} :
        LET r == create_tenant(wallets, tenants, wallet_id, tenant_id, f.st)
        IN  /\ InBounds(wallets, r.tenants)
            /\ tenants' = r.tenants
            /\ last' = Done("create_tenant", wallet_id, f,
                            r @@ [wallet |-> {}, token |-> {}])
            /\ UNCHANGED <<wallets, hist>>

GetToken ==
    \E w \in wallets, f \in {g \in LaterFaults : ~g.mt /\ g.st = "none"} :
        LET r == get_token(w, f.tok)
        IN  /\ last' = Done("get_token", w.wallet_id, f,
                            r @@ [tenant |-> {}, wallet |-> {w}])
            /\ UNCHANGED <<wallets, tenants, hist>>

GetTokenByWalletId ==
    \E wallet_id \in WalletIds,
       f \in {g \in Faults : g.lookup # "tenant" /\ ~g.mt /\ g.st = "none"} :
        LET r == get_token_by_wallet_id(wallets, wallet_id, f)
        IN  /\ last' = Done("get_token_by_wallet_id", wallet_id, f,
                            r @@ [tenant |-> {}, wallet |-> {}])
            /\ UNCHANGED <<wallets, tenants, hist>>

CreateInnkeeper ==
    \E f \in Faults :
        LET r == create_innkeeper(wallets, tenants, f)
        IN  /\ InBounds(r.wallets, r.tenants)
            /\ wallets' = r.wallets
            /\ tenants' = r.tenants
            /\ last' = Done("create_innkeeper", InnkeeperId, f, r)
            /\ hist' = [ok |-> IF r.err = NoErr
                               THEN hist.ok \cup {<<The(r.tenant).tenant_id,
                                                    The(r.wallet).wallet_id>>}
                               ELSE hist.ok,
                        clean |-> hist.clean /\ r.err = NoErr]

----------------------------------------------------------------------------
(* Spec: any sequence of create_wallet, create_tenant and create_innkeeper *)
(* calls, each running to completion, with collaborators that may fail     *)

RsIdle == resv = {} /\ now = 0 /\ chk = {}

Init == InitTM /\ InitCo /\ RsIdle /\ InitLb

Next ==
    /\ \/ CreateWallet
       \/ CreateTenant
       \/ CreateInnkeeper
    /\ UNCHANGED <<coVars, rsVars, lbVars>>

Spec == Init /\ [][Next]_vars

(* SpecToken: wallets are provisioned and tokens are requested for them *)

NextToken ==
    /\ \/ CreateWallet
       \/ GetToken
       \/ GetTokenByWalletId
    /\ UNCHANGED <<coVars, rsVars, lbVars>>

SpecToken == Init /\ [][NextToken]_vars

----------------------------------------------------------------------------
(* Properties of the TenantManager *)

CallNames(calls) == [i \in 1..Len(calls) |-> calls[i].call]
IsPrefix(s, t) == Len(s) <= Len(t) /\ \A i \in 1..Len(s) : s[i] = t[i]

\* C1: every persisted TenantRecord has a wallet_id that refers to an
\* existing WalletRecord, whatever calls ran and whichever of them failed.
C1_TenantHasWallet ==
    \A t \in tenants : \E w \in wallets : w.wallet_id = t.wallet_id

\* a tenant exists, and a create_tenant call for a wallet that does not
\* exist has just been refused
C1_Witness ==
    /\ tenants # {}
    /\ last.op = "create_tenant"
    /\ last.err = "StorageNotFoundError"
    /\ \A w \in wallets : w.wallet_id # last.arg

\* the order of create_wallet's awaited calls, and what one call must do
CreateWalletOrder ==
    <<"create_wallet", "create_auth_token", "WalletRecord.retrieve_by_id",
      "TenantRecord.save">>

C2_Step ==
    last'.op = "create_wallet" =>
        /\ IsPrefix(CallNames(last'.calls), CreateWalletOrder)
        /\ last'.f.mt =>
              /\ last'.err = "MultitenantManagerError"
              /\ CallNames(last'.calls) = <<"create_wallet">>
              /\ wallets' = wallets
        /\ last'.f.tok # NoErr =>
              /\ last'.err = last'.f.tok
              /\ CallNames(last'.calls) = <<"create_wallet", "create_auth_token">>
        /\ (last'.f.mt \/ last'.f.tok # NoErr) =>
              /\ tenants' = tenants
              /\ last'.tenant = {} /\ last'.wallet = {} /\ last'.token = {}
        /\ last'.err = NoErr =>
              /\ CallNames(last'.calls) = CreateWalletOrder
              /\ last'.tenant # {} /\ last'.wallet # {} /\ last'.token # {}

\* C2: create_wallet calls the collaborators in the order wallet creation,
\* token issuance, TenantRecord creation; when the multitenancy service fails
\* at wallet creation or at token issuance the call ends with that same
\* error, saves no TenantRecord and returns no (tenant, wallet, token).
C2_AbortOnServiceFailure == [][C2_Step]_vars

\* a create_wallet call has just failed at token issuance, after its wallet
\* was created
C2_Witness ==
    /\ last.op = "create_wallet"
    /\ last.f.tok # NoErr
    /\ last.err = last.f.tok
    /\ Len(last.calls) = 2
    /\ \E w \in wallets : w.wallet_id = last.calls[1].wallet_id

\* the innkeeper tenant, its wallet, and what one create_innkeeper call must do
InnkeeperTenant == {t \in tenants : t.tenant_id = InnkeeperId}
InnkeeperWallet ==
    {w \in wallets : \E t \in InnkeeperTenant : w.wallet_id = t.wallet_id}
InnkeeperWallets(ws) == {w \in ws : w.innkeeper}

C3_Step ==
    last'.op = "create_innkeeper" =>
        /\ (InnkeeperWallet # {} /\ last'.f.lookup = "none") =>
              /\ wallets' = wallets
              /\ tenants' = tenants
              /\ last'.calls =
                    <<Call("create_auth_token", The(InnkeeperWallet).wallet_id)>>
              /\ last'.err = NoErr =>
                    /\ last'.tenant = InnkeeperTenant
                    /\ last'.wallet = InnkeeperWallet
        /\ (hist.ok # {} /\ last'.err = NoErr) =>
              /\ hist'.ok = hist.ok
              /\ wallets' = wallets
              /\ tenants' = tenants
        /\ Cardinality(hist'.ok) <= 1
        /\ hist'.clean => Cardinality(InnkeeperWallets(wallets')) <= 1

C9_Step ==
    /\ \A t1, t2 \in tenants' : t1.tenant_id = t2.tenant_id => t1 = t2
    /\ \A t1, t2 \in tenants' : t1.wallet_id = t2.wallet_id => t1 = t2
    /\ tenants \subseteq tenants'

\* C9: tenant records and wallets stay 1:1 and tenant identity stays fixed:
\* no two TenantRecords share a tenant_id, no two share a wallet_id, and an
\* existing TenantRecord is never changed by a later operation.
C9_OneToOne == [][C9_Step]_vars

----------------------------------------------------------------------------
(* SpecConc: create_innkeeper coroutines on one event loop.  A coroutine    *)
(* runs without interruption from one await to the next; each action below *)
(* is the code between two awaits together with the awaited I/O.            *)

Set(p, l, at) ==
    /\ loc' = [loc EXCEPT ![p] = l]
    /\ pc' = [pc EXCEPT ![p] = at]

\* lines 128-135
CoBegin(p) ==
    /\ pc[p] = "idle"
    /\ loc[p].n < MaxCalls
    /\ Set(p, [NoLocals EXCEPT !.n = loc[p].n + 1], "lookup_tenant")
    /\ UNCHANGED <<wallets, tenants>>

\* line 138; lines 142-143 when it raises
CoLookupTenant(p) ==
    /\ pc[p] = "lookup_tenant"
    /\ \E fault \in {NoErr} \cup LookupErrors :
        LET r == TenantRecord_retrieve_by_id(tenants, InnkeeperId, fault)
        IN  Set(p, [loc[p] EXCEPT !.tenant_record = r.rec,
                                  !.creating = r.rec = {},
                                  !.faulted = @ \/ fault # NoErr],
                IF r.rec = {} THEN "create_wallet" ELSE "lookup_wallet")
    /\ UNCHANGED <<wallets, tenants>>

\* lines 139-141; lines 142-143 when it raises; the branch of line 145
CoLookupWallet(p) ==
    /\ pc[p] = "lookup_wallet"
    /\ \E fault \in {NoErr} \cup LookupErrors :
        LET r == WalletRecord_retrieve_by_id(
                     wallets, The(loc[p].tenant_record).wallet_id, fault)
        IN  Set(p, [loc[p] EXCEPT !.wallet_record = r.rec,
                                  !.creating = r.rec = {},
                                  !.faulted = @ \/ fault # NoErr],
                IF r.rec = {} THEN "create_wallet" ELSE "get_token")
    /\ UNCHANGED <<wallets, tenants>>

\* the same step made under a lock that spans the check and the creation:
\* the innkeeper is looked up again, and an existing wallet is adopted
CoCreateWalletChecked(p) ==
    /\ pc[p] = "create_wallet"
    /\ LET found == innkeeper_lookup(wallets, tenants, NoFault)
           r == mt_create_wallet(
                    wallets,
                    wallet_settings(wallets, InnkeeperName, InnkeeperKey,
                                    InnkeeperSettings),
                    FALSE)
       IN  IF found.tenant_record # {} /\ found.wallet_record # {}
           THEN /\ Set(p, [loc[p] EXCEPT !.tenant_record = found.tenant_record,
                                         !.wallet_record = found.wallet_record,
                                         !.creating = FALSE], "get_token")
                /\ UNCHANGED wallets
           ELSE /\ Set(p, [loc[p] EXCEPT !.wallet_record = r.rec], "get_token")
                /\ wallets' = r.wallets
    /\ UNCHANGED tenants

\* create_wallet, lines 49-76, reached from line 150; lines 78-80 when the
\* multitenancy service raises
CoCreateWallet(p) ==
    /\ pc[p] = "create_wallet"
    /\ \E fault \in BOOLEAN :
        LET r == mt_create_wallet(
                     wallets,
                     wallet_settings(wallets, InnkeeperName, InnkeeperKey,
                                     InnkeeperSettings),
                     fault)
        IN  /\ Set(p, [loc[p] EXCEPT !.wallet_record = r.rec, !.err = r.err,
                                     !.faulted = @ \/ fault],
                   IF r.err = NoErr THEN "get_token" ELSE "done")
            /\ wallets' = r.wallets
    /\ UNCHANGED tenants

\* get_token, lines 87-98, reached from line 147 or from line 77
CoGetToken(p) ==
    /\ pc[p] = "get_token"
    /\ \E tok \in TokenFaults :
        LET r == get_token(The(loc[p].wallet_record), tok)
        IN  Set(p, [loc[p] EXCEPT !.token = r.token, !.err = r.err,
                                  !.faulted = @ \/ tok # NoErr],
                IF r.err = NoErr /\ loc[p].creating THEN "create_tenant" ELSE "done")
    /\ UNCHANGED <<wallets, tenants>>

\* create_tenant, lines 109-125, reached from line 83
CoCreateTenant(p) ==
    /\ pc[p] = "create_tenant"
    /\ \E st \in StoreFaults :
        LET r == create_tenant(wallets, tenants,
                               The(loc[p].wallet_record).wallet_id, InnkeeperId, st)
        IN  /\ Set(p, [loc[p] EXCEPT !.tenant_record = r.tenant, !.err = r.err,
                                     !.faulted = @ \/ st # "none"],
                   "done")
            /\ tenants' = r.tenants
    /\ UNCHANGED wallets

\* lines 155-163, or the exception leaving the coroutine
CoReturn(p) ==
    /\ pc[p] = "done"
    /\ Set(p, loc[p], "idle")
    /\ UNCHANGED <<wallets, tenants>>

NextConc ==
    /\ \E p \in Procs :
        \/ CoBegin(p)
        \/ CoLookupTenant(p)
        \/ CoLookupWallet(p)
        \/ CoCreateWallet(p)
        \/ CoGetToken(p)
        \/ CoCreateTenant(p)
        \/ CoReturn(p)
    /\ UNCHANGED <<last, hist, rsVars, lbVars>>

SpecConc == Init /\ [][NextConc]_vars

\* what a coroutine does when it resumes at the wallet creation
C10_Step ==
    \A p \in Procs :
        (pc[p] = "create_wallet" /\ pc'[p] = "get_token") =>
            /\ loc[p].creating
            /\ loc'[p].wallet_record \subseteq InnkeeperWallets(wallets')
            /\ loc'[p].wallet_record # {}
            /\ loc'[p].wallet_record \cap wallets = {}
            /\ loc'[p].creating

\* C10: concurrent create_innkeeper calls are not coordinated.  A coroutine
\* that observed the innkeeper as absent creates a wallet when it resumes,
\* whatever the other coroutine did meanwhile (also when the innkeeper tenant
\* and its wallet exist by then), so two wallets can be created for the one
\* configured tenant_id.
C10_NoCoordination == [][C10_Step]_vars

\* no collaborator failed, both coroutines found the innkeeper absent, and
\* each created a wallet of its own
C10_Witness ==
    /\ \A p \in Procs : ~loc[p].faulted /\ loc[p].creating /\ loc[p].n = 1
    /\ loc[1].wallet_record # {}
    /\ loc[2].wallet_record # {}
    /\ loc[1].wallet_record # loc[2].wallet_record
    /\ Cardinality(InnkeeperWallets(wallets)) = 2

\* C7: when the wallet lookup inside get_token_by_wallet_id fails, the call
\* ends in an explicit lookup-failure error, returns no token and requests
\* none; a token is returned only after a successful lookup, for that wallet.
C7_ExplicitLookupFailure ==
    last.op = "get_token_by_wallet_id" =>
        LET lookup_failed == \/ last.f.lookup = "wallet"
                             \/ \A w \in wallets : w.wallet_id # last.arg
        IN  /\ lookup_failed =>
                  /\ last.err \in StorageErrors \cup BaseModelErrors
                  /\ last.token = {}
                  /\ \A i \in 1..Len(last.calls) :
                        last.calls[i].call # "create_auth_token"
            /\ last.token # {} =>
                  /\ ~lookup_failed
                  /\ last.token = {[wallet_id |-> last.arg]}

----------------------------------------------------------------------------
(* Reservation passwords *)

\* Text is a sequence of characters; bytes and str are told apart by a tag,
\* and encode/decode change the tag (every character here is ASCII).
Chars == {"a", "b"}
Texts(n) == UNION {[1..k -> Chars] : k \in 0..n}
Str(t) == [kind |-> "str", v |-> t]
Bytes(t) == [kind |-> "bytes", v |-> t]
encode(s) == [kind |-> "bytes", v |-> s.v]
decode(b) == [kind |-> "str", v |-> b.v]

\* bcrypt reads at most 72 bytes of a password, and str(uuid.uuid4()) has 36
\* characters: a generated password is shorter than what bcrypt reads
BcryptMax == PwdLen + 1
Prefix(t, n) == [i \in 1..(IF Len(t) < n THEN Len(t) ELSE n) |-> t[i]]

\* bcrypt.gensalt(): one of the salts; a salt is a fixed-width prefix
Salts == {<<"s1">>, <<"s2">>}
SaltLen == Len(<<"s1">>)

\* bcrypt.hashpw(password, salt): the salt prefix of `salt`, followed by a
\* digest of that salt and the bytes of the password bcrypt reads; distinct
\* (salt, password read) pairs give distinct digests
bcrypt_hashpw(password, salt) ==
    LET s == Prefix(salt.v, SaltLen)
    IN  Bytes(s \o <<[salt |-> s, key |-> Prefix(password.v, BcryptMax)]>>)

\* bcrypt.checkpw(password, hashed_password): hashes with the salt that
\* prefixes hashed_password and compares in constant time
bcrypt_checkpw(password, hashed_password) ==
    bcrypt_hashpw(password, hashed_password) = hashed_password

\* config.reservation.expiry_minutes
expiry_minutes == 1

\* generate_reservation_token_data(): pwd and salt are the random draws
generate_reservation_token_data(pwd, salt, utcnow) ==
    LET _pwd == Str(pwd)
        _salt == Bytes(salt)
        _hash == bcrypt_hashpw(encode(_pwd), _salt)
        _expiry == utcnow + expiry_minutes
    IN  [pwd |-> _pwd, salt |-> _salt, hash |-> _hash, expiry |-> _expiry]

\* the ReservationRecord the caller persists: salt and hash as text
ReservationRecord(data) ==
    [reservation_token_salt |-> decode(data.salt),
     reservation_token_hash |-> decode(data.hash),
     expiry |-> data.expiry]

\* check_reservation_password with the two checks joined by `or`
check_reservation_password_either(reservation_pwd, reservation) ==
    LET reservation_token ==
            bcrypt_hashpw(encode(reservation_pwd),
                          encode(reservation.reservation_token_salt))
        checkpw == bcrypt_checkpw(encode(reservation_pwd), reservation_token)
        checkpw2 == bcrypt_checkpw(encode(reservation_pwd),
                                   encode(reservation.reservation_token_hash))
    IN  IF checkpw \/ checkpw2 THEN {decode(reservation_token)} ELSE {}

\* check_reservation_password(reservation_pwd, reservation): {} is None
check_reservation_password(reservation_pwd, reservation) ==
    LET reservation_token ==
            bcrypt_hashpw(encode(reservation_pwd),
                          encode(reservation.reservation_token_salt))
        checkpw == bcrypt_checkpw(encode(reservation_pwd), reservation_token)
        checkpw2 == bcrypt_checkpw(encode(reservation_pwd),
                                   encode(reservation.reservation_token_hash))
    IN  IF checkpw /\ checkpw2 THEN {decode(reservation_token)} ELSE {}

\* a reservation is requested: the data is generated and the record persisted;
\* `issued` keeps the plaintext that was delivered out of band
Reserve ==
    \E pwd \in [1..PwdLen -> Chars], salt \in Salts :
        LET data == generate_reservation_token_data(pwd, salt, now)
        IN  /\ resv' = {[record |-> ReservationRecord(data), issued |-> data.pwd]}
            /\ chk' = {}
            /\ UNCHANGED now

\* a password is presented for the reservation
CheckIn ==
    \E r \in resv, x \in Texts(BcryptMax + 1) :
        /\ chk' = {[pwd |-> Str(x), at |-> now,
                    result |-> check_reservation_password(Str(x), r.record)]}
        /\ UNCHANGED <<resv, now>>

Tick ==
    /\ now < MaxTime
    /\ now' = now + 1
    /\ UNCHANGED <<resv, chk>>

InitResv == InitTM /\ InitCo /\ InitRs /\ InitLb

NextResv ==
    /\ \/ Reserve
       \/ CheckIn
       \/ Tick
    /\ UNCHANGED <<tmVars, coVars, lbVars>>

SpecResv == InitResv /\ [][NextResv]_vars

\* C4: for the record built from generate_reservation_token_data's salt and
\* hash for password P, check_reservation_password(X, record) returns a value
\* (the hash recomputed from X, equal to the persisted hash) exactly when
\* X = P, and None for every other X.
C4_RoundTrip ==
    \A c \in chk, r \in resv :
        /\ c.result # {} <=> c.pwd = r.issued
        /\ c.result \subseteq {r.record.reservation_token_hash}

\* the issued password has just been accepted
C4_Witness ==
    \E c \in chk, r \in resv :
        /\ c.pwd = r.issued
        /\ c.result = {r.record.reservation_token_hash}

\* C5: once the clock is past a reservation's expiry,
\* check_reservation_password returns None, also for the correct password.
C5_ExpiredRefused ==
    \A c \in chk, r \in resv : c.at > r.record.expiry => c.result = {}

----------------------------------------------------------------------------
(* Showcase database and its repositories *)

Sandboxes == 1..NumSandboxes
LobNames == <<"Faber", "Acme">>

\* the n-th line of business of sandbox s
LobNo(s, n) == (s - 1) * Len(LobNames) + n

Lob(s, n) ==
    [id |-> <<"lob", LobNo(s, n)>>, sandbox_id |-> s, name |-> LobNames[n],
     wallet_id |-> <<"wallet", LobNo(s, n)>>, wallet_key |-> <<"key", LobNo(s, n)>>,
     cred_def_id |-> None]

Student(s) ==
    [id |-> <<"student", s>>, sandbox_id |-> s, connection_id |-> <<"conn", s>>,
     student_id |-> <<"sid", s>>, name |-> <<"name", s>>,
     date |-> [day |-> 1, month |-> s, year |-> 2022],
     degree |-> <<"degree", s>>, age |-> 18 + s]

Applicant(s) ==
    [id |-> <<"applicant", s>>, sandbox_id |-> s,
     connection_id |-> <<"conn", NumSandboxes + s>>, alias |-> <<"alias", s>>]

\* every sandbox is created with its lines of business, a student and an
\* applicant; no line of business is an issuer yet
Showcase ==
    [lobs |-> {Lob(s, n) : s \in Sandboxes, n \in 1..Len(LobNames)},
     students |-> {Student(s) : s \in Sandboxes},
     applicants |-> {Applicant(s) : s \in Sandboxes},
     oobs |-> {[id |-> <<"oob", s>>, sender_id |-> <<"lob", LobNo(s, 1)>>,
                recipient_id |-> <<"lob", LobNo(s, 2)>>] : s \in Sandboxes}]

LobIds == {<<"lob", k>> : k \in 0..(NumSandboxes * Len(LobNames))}
StudentIds == {<<"student", k>> : k \in 0..NumSandboxes}
ApplicantIds == {<<"applicant", k>> : k \in 0..NumSandboxes}

\* LobRepository.get_in_sandbox(sandbox_id)
LobRepository_get_in_sandbox(d, sandbox_id) ==
    {l \in d.lobs : l.sandbox_id = sandbox_id}

\* LobRepository.get_by_id_with_sandbox(sandbox_id, lob_id): {} stands for
\* the not-found error it raises
LobRepository_get_by_id_with_sandbox(d, sandbox_id, lob_id) ==
    {l \in d.lobs : l.sandbox_id = sandbox_id /\ l.id = lob_id}

\* LobRepository.get_by_name_with_sandbox(sandbox_id, name)
LobRepository_get_by_name_with_sandbox(d, sandbox_id, name) ==
    {l \in d.lobs : l.sandbox_id = sandbox_id /\ l.name = name}

\* StudentRepository.get_by_id_in_sandbox(sandbox_id, student_id)
StudentRepository_get_by_id_in_sandbox(d, sandbox_id, student_id) ==
    {x \in d.students : x.sandbox_id = sandbox_id /\ x.id = student_id}

\* ApplicantRepository.get_by_id_in_sandbox(sandbox_id, applicant_id)
ApplicantRepository_get_by_id_in_sandbox(d, sandbox_id, applicant_id) ==
    {x \in d.applicants : x.sandbox_id = sandbox_id /\ x.id = applicant_id}

\* OutOfBandRepository.get_for_lob(lob_id): recipient or sender
OutOfBandRepository_get_for_lob(d, lob_id) ==
    {o \in d.oobs : o.sender_id = lob_id \/ o.recipient_id = lob_id}

\* str(x) of a UUID
py_str(x) == [kind |-> "str", of |-> x]

\* date.strftime("%d-%m-%Y")
strftime_dmy(date) == <<date.day, "-", date.month, "-", date.year>>

----------------------------------------------------------------------------
(* Line-of-business routes.  A handler returns its status, its response    *)
(* body and the calls it made to the traction service.                      *)

Traction(fn, wallet_id, wallet_key, args) ==
    [fn |-> fn, wallet_id |-> wallet_id, wallet_key |-> wallet_key, args |-> args]

Ok(body, calls) == [status |-> "ok", body |-> body, ext |-> calls]
NotFound == [status |-> "DoesNotExist", body |-> {}, ext |-> <<>>]
Answer(call) == {[answer_to |-> call.fn, wallet_id |-> call.wallet_id]}
Forward(call) == Ok(Answer(call), <<call>>)

get_line_of_businesses(d, sandbox_id) ==
    Ok(LobRepository_get_in_sandbox(d, sandbox_id), <<>>)

get_line_of_business(d, sandbox_id, lob_id) ==
    LET item == LobRepository_get_by_id_with_sandbox(d, sandbox_id, lob_id)
    IN  IF item = {} THEN NotFound ELSE Ok(item, <<>>)

get_out_of_band_messages(d, sandbox_id, lob_id) ==
    LET lob == LobRepository_get_by_id_with_sandbox(d, sandbox_id, lob_id)
    IN  IF lob = {} THEN NotFound
        ELSE Ok(OutOfBandRepository_get_for_lob(d, The(lob).id), <<>>)

get_credential_offer(d, sandbox_id, lob_id) ==
    LET lob == LobRepository_get_by_id_with_sandbox(d, sandbox_id, lob_id)
    IN  IF lob = {} THEN NotFound
        ELSE Forward(Traction("tenant_get_credential_offers",
                              The(lob).wallet_id, The(lob).wallet_key, <<>>))

accept_credential_offer(d, sandbox_id, lob_id, cred_issue_id) ==
    LET lob == LobRepository_get_by_id_with_sandbox(d, sandbox_id, lob_id)
    IN  IF lob = {} THEN NotFound
        ELSE Forward(Traction("tenant_accept_credential_offer",
                              The(lob).wallet_id, The(lob).wallet_key,
                              <<cred_issue_id>>))

reject_credential_offer(d, sandbox_id, lob_id, cred_issue_id) ==
    LET lob == LobRepository_get_by_id_with_sandbox(d, sandbox_id, lob_id)
    IN  IF lob = {} THEN NotFound
        ELSE Forward(Traction("tenant_reject_credential_offer",
                              The(lob).wallet_id, The(lob).wallet_key,
                              <<cred_issue_id>>))

\* get_credentials with the line of business looked up by its id alone
get_credentials_by_id(d, sandbox_id, lob_id) ==
    LET lob == {l \in d.lobs : l.id = lob_id}
    IN  IF lob = {} THEN NotFound
        ELSE Forward(Traction("tenant_get_credentials",
                              The(lob).wallet_id, The(lob).wallet_key, <<>>))

get_credentials(d, sandbox_id, lob_id) ==
    LET lob == LobRepository_get_by_id_with_sandbox(d, sandbox_id, lob_id)
    IN  IF lob = {} THEN NotFound
        ELSE Forward(Traction("tenant_get_credentials",
                              The(lob).wallet_id, The(lob).wallet_key, <<>>))

\* api.services.sandbox: each service resolves the line of business within
\* the sandbox and then acts with its wallet
sandbox_service(fn, d, sandbox_id, lob_id, payload) ==
    LET lob == LobRepository_get_by_id_with_sandbox(d, sandbox_id, lob_id)
    IN  IF lob = {} THEN NotFound
        ELSE Forward(Traction(fn, The(lob).wallet_id, The(lob).wallet_key,
                              <<payload>>))

\* sandbox.promote_lob_to_issuer: the line of business gets its cred_def_id
sandbox_promote_lob_to_issuer(d, sandbox_id, lob_id) ==
    LET lob == LobRepository_get_by_id_with_sandbox(d, sandbox_id, lob_id)
        issuer == [The(lob) EXCEPT !.cred_def_id = <<"cred_def", The(lob).id[2]>>]
    IN  IF lob = {} THEN d
        ELSE [d EXCEPT !.lobs = (d.lobs \ lob) \cup {issuer}]

create_invitation_for_student(d, sandbox_id, lob_id, payload) ==
    sandbox_service("create_invitation_for_student", d, sandbox_id, lob_id, payload)

create_invitation_for_applicant(d, sandbox_id, lob_id, payload) ==
    sandbox_service("create_invitation_for_applicant", d, sandbox_id, lob_id, payload)

accept_invitation(d, sandbox_id, lob_id, payload) ==
    sandbox_service("accept_invitation", d, sandbox_id, lob_id, payload)

promote_to_issuer(d, sandbox_id, lob_id) ==
    sandbox_service("promote_lob_to_issuer", d, sandbox_id, lob_id, None)

issue_degree(d, sandbox_id, lob_id, student_id) ==
    LET student == StudentRepository_get_by_id_in_sandbox(d, sandbox_id, student_id)
        faber == LobRepository_get_by_id_with_sandbox(d, sandbox_id, lob_id)
    IN  IF student = {} \/ faber = {} THEN NotFound
        ELSE LET st == The(student)
                 attrs == <<[name |-> "student_id", value |-> st.student_id],
                            [name |-> "name", value |-> st.name],
                            [name |-> "date", value |-> strftime_dmy(st.date)],
                            [name |-> "degree", value |-> st.degree],
                            [name |-> "age", value |-> st.age]>>
             IN  Forward(Traction("tenant_issue_credential",
                                  The(faber).wallet_id, The(faber).wallet_key,
                                  [connection_id |-> py_str(st.connection_id),
                                   alias |-> "degree",
                                   cred_def_id |-> py_str(The(faber).cred_def_id),
                                   attributes |-> attrs]))

\* request_degree with the restrictions taken from the requesting line of
\* business instead of the issuer
request_degree_own_cred_def(d, sandbox_id, lob_id, applicant_id) ==
    LET applicant == ApplicantRepository_get_by_id_in_sandbox(d, sandbox_id, applicant_id)
        acme == LobRepository_get_by_id_with_sandbox(d, sandbox_id, lob_id)
    IN  IF applicant = {} \/ acme = {} THEN NotFound
        ELSE LET restrictions == <<[cred_def_id |-> The(acme).cred_def_id]>>
                 proof_req ==
                    [requested_attributes |->
                        <<[name |-> "degree", restrictions |-> restrictions],
                          [name |-> "date", restrictions |-> restrictions]>>,
                     requested_predicates |->
                        <<[name |-> "age", p_type |-> ">", p_value |-> 18,
                           restrictions |-> restrictions]>>]
             IN  Forward(Traction("tenant_request_credential_presentation",
                                  The(acme).wallet_id, The(acme).wallet_key,
                                  [connection_id |-> py_str(The(applicant).connection_id),
                                   alias |-> The(applicant).alias,
                                   proof_req |-> proof_req]))

request_degree(d, sandbox_id, lob_id, applicant_id) ==
    LET applicant == ApplicantRepository_get_by_id_in_sandbox(d, sandbox_id, applicant_id)
        acme == LobRepository_get_by_id_with_sandbox(d, sandbox_id, lob_id)
        faber == LobRepository_get_by_name_with_sandbox(d, sandbox_id, "Faber")
    IN  IF applicant = {} \/ acme = {} \/ faber = {} THEN NotFound
        ELSE LET restrictions == <<[cred_def_id |-> The(faber).cred_def_id]>>
                 proof_req ==
                    [requested_attributes |->
                        <<[name |-> "degree", restrictions |-> restrictions],
                          [name |-> "date", restrictions |-> restrictions]>>,
                     requested_predicates |->
                        <<[name |-> "age", p_type |-> ">", p_value |-> 18,
                           restrictions |-> restrictions]>>]
             IN  Forward(Traction("tenant_request_credential_presentation",
                                  The(acme).wallet_id, The(acme).wallet_key,
                                  [connection_id |-> py_str(The(applicant).connection_id),
                                   alias |-> The(applicant).alias,
                                   proof_req |-> proof_req]))

----------------------------------------------------------------------------
(* SpecLob: requests to the line-of-business routes, one at a time *)

Serve(route, sandbox_id, lob_id, who, r) ==
    /\ resp' = [req |-> [route |-> route, sandbox_id |-> sandbox_id,
                         lob_id |-> lob_id, who |-> who],
                status |-> r.status, body |-> r.body]
    /\ ext' = r.ext

Payloads == {<<"payload", 1>>}
CredIssueIds == {<<"cred_issue", 1>>}

GetLineOfBusinesses ==
    \E sandbox_id \in Sandboxes :
        /\ Serve("get_line_of_businesses", sandbox_id, None, None,
                 get_line_of_businesses(db, sandbox_id))
        /\ UNCHANGED db

GetLineOfBusiness ==
    \E sandbox_id \in Sandboxes, lob_id \in LobIds :
        /\ Serve("get_line_of_business", sandbox_id, lob_id, None,
                 get_line_of_business(db, sandbox_id, lob_id))
        /\ UNCHANGED db

GetOutOfBandMessages ==
    \E sandbox_id \in Sandboxes, lob_id \in LobIds :
        /\ Serve("get_out_of_band_messages", sandbox_id, lob_id, None,
                 get_out_of_band_messages(db, sandbox_id, lob_id))
        /\ UNCHANGED db

GetCredentialOffer ==
    \E sandbox_id \in Sandboxes, lob_id \in LobIds :
        /\ Serve("get_credential_offer", sandbox_id, lob_id, None,
                 get_credential_offer(db, sandbox_id, lob_id))
        /\ UNCHANGED db

AcceptCredentialOffer ==
    \E sandbox_id \in Sandboxes, lob_id \in LobIds, cred_issue_id \in CredIssueIds :
        /\ Serve("accept_credential_offer", sandbox_id, lob_id, None,
                 accept_credential_offer(db, sandbox_id, lob_id, cred_issue_id))
        /\ UNCHANGED db

RejectCredentialOffer ==
    \E sandbox_id \in Sandboxes, lob_id \in LobIds, cred_issue_id \in CredIssueIds :
        /\ Serve("reject_credential_offer", sandbox_id, lob_id, None,
                 reject_credential_offer(db, sandbox_id, lob_id, cred_issue_id))
        /\ UNCHANGED db

GetCredentials ==
    \E sandbox_id \in Sandboxes, lob_id \in LobIds :
        /\ Serve("get_credentials", sandbox_id, lob_id, None,
                 get_credentials(db, sandbox_id, lob_id))
        /\ UNCHANGED db

CreateInvitationForStudent ==
    \E sandbox_id \in Sandboxes, lob_id \in LobIds, payload \in Payloads :
        /\ Serve("create_invitation_for_student", sandbox_id, lob_id, None,
                 create_invitation_for_student(db, sandbox_id, lob_id, payload))
        /\ UNCHANGED db

CreateInvitationForApplicant ==
    \E sandbox_id \in Sandboxes, lob_id \in LobIds, payload \in Payloads :
        /\ Serve("create_invitation_for_applicant", sandbox_id, lob_id, None,
                 create_invitation_for_applicant(db, sandbox_id, lob_id, payload))
        /\ UNCHANGED db

AcceptInvitation ==
    \E sandbox_id \in Sandboxes, lob_id \in LobIds, payload \in Payloads :
        /\ Serve("accept_invitation", sandbox_id, lob_id, None,
                 accept_invitation(db, sandbox_id, lob_id, payload))
        /\ UNCHANGED db

PromoteToIssuer ==
    \E sandbox_id \in Sandboxes, lob_id \in LobIds :
        /\ Serve("promote_to_issuer", sandbox_id, lob_id, None,
                 promote_to_issuer(db, sandbox_id, lob_id))
        /\ db' = sandbox_promote_lob_to_issuer(db, sandbox_id, lob_id)

IssueDegree ==
    \E sandbox_id \in Sandboxes, lob_id \in LobIds, student_id \in StudentIds :
        /\ Serve("issue_degree", sandbox_id, lob_id, student_id,
                 issue_degree(db, sandbox_id, lob_id, student_id))
        /\ UNCHANGED db

RequestDegree ==
    \E sandbox_id \in Sandboxes, lob_id \in LobIds, applicant_id \in ApplicantIds :
        /\ Serve("request_degree", sandbox_id, lob_id, applicant_id,
                 request_degree(db, sandbox_id, lob_id, applicant_id))
        /\ UNCHANGED db

InitLob ==
    /\ InitTM /\ InitCo /\ RsIdle
    /\ db = Showcase
    /\ ext = <<>>
    /\ resp = [req |-> NoRequest, status |-> "none", body |-> {}]

NextLob ==
    /\ \/ GetLineOfBusinesses
       \/ GetLineOfBusiness
       \/ GetOutOfBandMessages
       \/ GetCredentialOffer
       \/ AcceptCredentialOffer
       \/ RejectCredentialOffer
       \/ GetCredentials
       \/ CreateInvitationForStudent
       \/ CreateInvitationForApplicant
       \/ AcceptInvitation
       \/ PromoteToIssuer
       \/ IssueDegree
       \/ RequestDegree
    /\ UNCHANGED <<tmVars, coVars, rsVars>>

SpecLob == InitLob /\ [][NextLob]_vars

\* the last request named a line of business and this line of business is
\* one of its sandbox
Requested == {l \in db.lobs : l.id = resp.req.lob_id}
InSandbox == \E l \in Requested : l.sandbox_id = resp.req.sandbox_id
WhoInSandbox ==
    CASE resp.req.route = "issue_degree" ->
            \E x \in db.students :
                x.id = resp.req.who /\ x.sandbox_id = resp.req.sandbox_id
      [] resp.req.route = "request_degree" ->
            \E x \in db.applicants :
                x.id = resp.req.who /\ x.sandbox_id = resp.req.sandbox_id
      [] OTHER -> TRUE

\* C6: a route handler that takes a lob_id resolves the line of business
\* within sandbox_id before it acts: for a lob_id outside sandbox_id it
\* returns no record and calls the traction service with no wallet; every
\* call it makes carries the wallet of that line of business; issue_degree
\* and request_degree make no call for a student/applicant outside sandbox_id.
C6_SandboxScoped ==
    resp.req.route \notin {"none", "get_line_of_businesses"} =>
        /\ ~InSandbox => resp.status # "ok" /\ resp.body = {} /\ ext = <<>>
        /\ \A i \in 1..Len(ext) :
              /\ InSandbox
              /\ \E l \in Requested :
                    ext[i].wallet_id = l.wallet_id /\ ext[i].wallet_key = l.wallet_key
        /\ ~WhoInSandbox => ext = <<>>

\* a request for the credentials of a line of business of another sandbox
\* has just been refused
C6_Witness ==
    /\ resp.req.route = "get_credentials"
    /\ Requested # {}
    /\ ~InSandbox
    /\ resp.status = "DoesNotExist"

\* the line of business named Faber in the sandbox of the last request
Issuer == {l \in db.lobs : l.sandbox_id = resp.req.sandbox_id /\ l.name = "Faber"}

\* C8: the proof request request_degree sends has exactly the attributes
\* degree and date and the one predicate age > 18, each with exactly one
\* restriction, the cred_def_id of the sandbox's 'Faber'; it is sent with
\* the requesting line of business's wallet and the applicant's connection.
C8_ProofRequest ==
    (resp.req.route = "request_degree" /\ ext # <<>>) =>
        LET call == ext[1]
            pr == call.args.proof_req
            restricted(e) ==
                /\ Len(e.restrictions) = 1
                /\ DOMAIN e.restrictions[1] = {"cred_def_id"}
                /\ \E l \in Issuer : e.restrictions[1].cred_def_id = l.cred_def_id
        IN  /\ Len(ext) = 1
            /\ call.fn = "tenant_request_credential_presentation"
            /\ Len(pr.requested_attributes) = 2
            /\ pr.requested_attributes[1].name = "degree"
            /\ pr.requested_attributes[2].name = "date"
            /\ Len(pr.requested_predicates) = 1
            /\ pr.requested_predicates[1].name = "age"
            /\ pr.requested_predicates[1].p_type = ">"
            /\ pr.requested_predicates[1].p_value = 18
            /\ \A i \in 1..2 : restricted(pr.requested_attributes[i])
            /\ restricted(pr.requested_predicates[1])
            /\ Cardinality(Issuer) = 1
            /\ \E l \in Requested :
                  call.wallet_id = l.wallet_id /\ call.wallet_key = l.wallet_key
            /\ \E a \in db.applicants :
                  /\ a.id = resp.req.who
                  /\ a.sandbox_id = resp.req.sandbox_id
                  /\ call.args.connection_id = py_str(a.connection_id)

\* 'Acme' has just requested a degree while 'Faber' is an issuer
C8_Witness ==
    /\ resp.req.route = "request_degree"
    /\ resp.status = "ok"
    /\ ext # <<>>
    /\ \E l \in Requested : l.name = "Acme"
    /\ \E l \in Issuer : l.cred_def_id # None

====
